---- MODULE Spec2Model ----
(***************************************************************************)
(* The password-reset subsystem of the QuickCart backend                   *)
(* (src/api/index.js): the in-memory reset-code registry resetCodes, the   *)
(* expiry timers, the two-provider send chain of POST /api/forgot-password *)
(* and POST /api/reset-password.                                           *)
(*                                                                         *)
(* src/api/index.js holds two builds of the server, one after the other:   *)
(* lines 1-389 (variant 1) and lines 391-1029 (variant 2).  The model      *)
(* carries both; the variable variant says which build is running.         *)
(*                                                                         *)
(* Every await of a handler is a point where other handlers and timers may *)
(* run, so a handler is one action per stretch of synchronous code.        *)
(***************************************************************************)
EXTENDS Integers, Sequences, FiniteSets, Bags, TLC

\* ------------------------------------------------------------------ bounds

\* Requests (forgot-password and reset-password together) made in one run.
MaxReq == 3

\* ------------------------------------------------------- program constants

\* Math.floor(100000 + Math.random() * 900000), lines 171 and 848: the
\* generator returns any of the CodeSpan integers from MinCode up.
MinCode == 100000
CodeSpan == 900000

\* ---------------------------------------------------------- JS values

\* The JS values the handlers see for a code: undefined (a missing body
\* field, or Map.get of an absent key), a string of digits, or a number.
Undefined == [type |-> "undefined", digits |-> 0]
Str(n) == [type |-> "string", digits |-> n]
Num(n) == [type |-> "number", digits |-> n]

\* Number.prototype.toString on an integer: the string of its digits.
NumberToString(n) == Str(n)

\* !v of JS, for the values above: undefined and 0 are falsy; every string
\* of six digits is non-empty, hence truthy.
Falsy(v) == v.type = "undefined" \/ (v.type = "number" /\ v.digits = 0)

\* a === b of JS on these values: same type and same value.
StrictEquals(a, b) == a.type = b.type /\ a.digits = b.digits

\* The codes the generator can yield, sampled: the smallest one and one
\* inside the range.  Two requests may draw the same code.
CodeNumbers == {n \in {MinCode, 482913} : MinCode <= n /\ n < MinCode + CodeSpan}
\* What a client can put in the "code" field of a reset-password body: a
\* string of digits, or the same digits as a JSON number.
SubmittedCodes == {Str(n) : n \in CodeNumbers} \cup {Num(482913)}

\* Emails with an account in the User collection, and one without.  The
\* handlers of the reset flow never add or remove a user, and User.findOne
\* is taken to resolve (a rejected findOne is caught by no handler).
Registered == {"a@b.com"}
Emails == Registered \cup {"nouser@x.com"}
NoEmail == "<missing>"

NoUser == "<null>"
NoPassword == "<missing>"
Passwords == {"newpass"}
\* The bodies of POST /api/reset-password: every complete one, and one with
\* each field missing.
ResetBodies ==
  [email : Emails, code : SubmittedCodes, newPassword : Passwords]
    \cup {[email |-> NoEmail, code |-> Str(482913), newPassword |-> "newpass"],
          [email |-> "a@b.com", code |-> Undefined, newPassword |-> "newpass"],
          [email |-> "a@b.com", code |-> Str(482913), newPassword |-> NoPassword]}

\* bcrypt.hash(p, 10): a value that is not the password.
BcryptHash(p) == <<"bcrypt", p>>
InitialHash == BcryptHash("oldpass")

VARIABLES
  variant,      \* 1: src/api/index.js lines 1-389; 2: lines 391-1029
  production,   \* process.env.NODE_ENV === 'production'
  emailCreds,   \* process.env.EMAIL_USER && process.env.EMAIL_PASS
  resend,       \* the Resend client (RESEND_API_KEY set), else null
  users,        \* the User collection: email -> password hash, or NoUser
  resetCodes,   \* the registry Map: email -> code string, or Undefined
  timers,       \* pending setTimeout callbacks, oldest first
  reqs,         \* the handlers in flight, each its locals and position (a bag)
  made,         \* how many requests have been made
  response,     \* the HTTP response the latest step wrote, if it wrote one
  hist          \* history per email (not program state)

vars == <<variant, production, emailCreds, resend, users, resetCodes, timers,
          reqs, made, response, hist>>
config == <<variant, production, emailCreds, resend>>

Idle == [kind |-> "none", pc |-> "idle", email |-> NoEmail, code |-> Undefined,
         newPassword |-> NoPassword, emailSent |-> FALSE, attempts |-> <<>>]

\* A response: the status and the body's success, resetCode and error, and
\* (for the properties) the handler that wrote it, as it stood then.
NoResponse == [req |-> Idle, status |-> 0, success |-> FALSE,
               resetCode |-> Undefined, error |-> ""]

\* What has happened to an email's codes so far: how many requests have
\* stored a code for it (issuer numbers the last one), the code stored last,
\* whether the timer of that last request has fired, the code a successful
\* reset-password consumed since the last store, and the codes stored
\* before the last one.
NoHist == [issuer |-> 0, code |-> Undefined, expired |-> FALSE,
           consumed |-> Undefined, superseded |-> {}]

Init ==
  /\ variant \in {1, 2}
  /\ production \in BOOLEAN
  /\ emailCreds \in BOOLEAN
  /\ resend \in BOOLEAN
  /\ users = [e \in Emails |-> IF e \in Registered THEN InitialHash ELSE NoUser]
  /\ resetCodes = [e \in Emails |-> Undefined]
  /\ timers = <<>>
  /\ reqs = EmptyBag
  /\ made = 0
  /\ response = NoResponse
  /\ hist = [e \in Emails |-> NoHist]

\* ------------------------------------------------------------ registry

\* Mutant: a set that keeps the entry an email already has.
MutMapSetIfAbsent(codes, email, code) ==
  IF codes[email] = Undefined THEN [codes EXCEPT ![email] = code] ELSE codes

\* Mutant: a delete that clears the whole registry.
MutMapDeleteAll(codes, email) == [e \in DOMAIN codes |-> Undefined]

\* resetCodes.set(email, code), lines 172 and 849.
MapSet(codes, email, code) == [codes EXCEPT ![email] = code]
\* resetCodes.delete(email), lines 175, 282, 854 and 971.
MapDelete(codes, email) == [codes EXCEPT ![email] = Undefined]
\* resetCodes.get(email), lines 273, 853 and 961.
MapGet(codes, email) == codes[email]

\* Mutant: the guard of the callback negated.
MutTimerCallbackNegated(codes, t) ==
  IF ~StrictEquals(MapGet(codes, t.email), t.code)
    THEN MapDelete(codes, t.email)
    ELSE codes

\* Mutant: a callback that leaves the registry as it is.
MutTimerCallbackIdle(codes, t) == codes

\* The callback handed to setTimeout, for the timer t = [email, code, owner].
\* Variant 1 (line 175) deletes whatever is stored for the email; variant 2
\* (lines 852-857) deletes only while the stored code is still its own.
TimerCallback(codes, t) ==
  IF variant = 1
    THEN MapDelete(codes, t.email)
    ELSE IF StrictEquals(MapGet(codes, t.email), t.code)
           THEN MapDelete(codes, t.email)
           ELSE codes

\* Mutant: != in place of !==, which converts a number to a string before
\* it compares.
MutCodeRejectedLoose(validCode, code) ==
  Falsy(validCode) \/ validCode.digits # code.digits

\* Mutant: the comparison left out, only the presence of an entry checked.
MutCodeRejectedPresence(validCode, code) == Falsy(validCode)

\* Lines 274 and 962-963: if (!validCode || validCode !== code) return 400.
CodeRejected(validCode, code) == Falsy(validCode) \/ ~StrictEquals(validCode, code)

\* ----------------------------------------------------------- send chain

\* Variant 1 tries Gmail first and falls back to Resend (lines 193, 220);
\* variant 2 tries Resend first and falls back to Gmail (lines 870, 895).
FirstProvider == IF variant = 1 THEN "gmail" ELSE "resend"
SecondProvider == IF variant = 1 THEN "resend" ELSE "gmail"
Configured(p) == IF p = "gmail" THEN emailCreds ELSE resend

\* How a provider call can settle: it resolves, it rejects, and Resend's
\* client can also resolve with a result whose .error is set (line 230).
Outcomes(p) == IF p = "gmail" THEN {"ok", "throw"} ELSE {"ok", "throw", "errorResult"}

\* Whether the handler sets emailSent = true after the call settled.
\* Variant 1 throws on result.error (line 230); variant 2 does not look at
\* the result (lines 873-885).
MarksSent(p, outcome) ==
  \/ outcome = "ok"
  \/ p = "resend" /\ outcome = "errorResult" /\ variant = 2

\* Mutant: the second attempt made whenever its provider is configured.
MutFallbackAlways(emailSent, p) == Configured(p)

\* The guard of the second attempt: lines 220 and 895.
FallbackDue(emailSent, p) == ~emailSent /\ Configured(p)

\* ------------------------------------------------------------ responses

Reply(r, status, success, resetCode, error) ==
  [req |-> r, status |-> status, success |-> success,
   resetCode |-> resetCode, error |-> error]

\* The response that ends forgot-password for an existing account:
\* lines 242-264 (variant 1) and 929-945 (variant 2).
ForgotResponse(r) ==
  IF variant = 1
    THEN IF r.emailSent
           THEN Reply(r, 200, TRUE, Undefined, "")
           ELSE IF ~production
                  THEN Reply(r, 200, TRUE, r.code, "")
                  ELSE Reply(r, 500, FALSE, Undefined,
                             "Failed to send verification email.")
    ELSE IF ~r.emailSent
           THEN Reply(r, 200, TRUE, r.code, "")
           ELSE Reply(r, 200, TRUE, Undefined, "")

\* A request comes in and its handler runs to its first await, where it
\* stays as r.
Begin(r) ==
  /\ reqs' = reqs (+) SetToBag({r})
  /\ response' = NoResponse

\* The handler r goes on to its next await, where it stays as s.
Continue(r, s) ==
  /\ reqs' = (reqs (-) SetToBag({r})) (+) SetToBag({s})
  /\ response' = NoResponse

\* The handler r returns having written `resp`.
Finish(r, resp) ==
  /\ reqs' = reqs (-) SetToBag({r})
  /\ response' = resp

InFlight == BagToSet(reqs)

\* ------------------------------------------------------ forgot-password

\* POST /api/forgot-password up to its first await: lines 163-167, 828-839.
ForgotPassword(email) ==
  /\ made < MaxReq
  /\ made' = made + 1
  /\ LET r == [Idle EXCEPT !.kind = "forgot", !.email = email] IN
       IF email = NoEmail
         THEN /\ response' = Reply(r, 400, FALSE, Undefined, "Email is required")
              /\ reqs' = reqs
         ELSE Begin([r EXCEPT !.pc = "fp_find"])
  /\ UNCHANGED <<config, users, resetCodes, timers, hist>>

\* The history of an email after one more request stored `code` for it.
Issued(h, code) ==
  [issuer |-> h.issuer + 1, code |-> code, expired |-> FALSE, consumed |-> Undefined,
   superseded |-> IF h.code = Undefined THEN h.superseded
                  ELSE h.superseded \cup {h.code}]

\* Mutant: the account check left out.
MutNoAccountNever(user) == FALSE

\* if (!user), lines 168, 277, 840 and 966.
NoAccount(user) == user = NoUser

\* User.findOne resolved: lines 167-175 and the way to the first send
\* (193, 220, 242), or lines 839-857 and 870, 895, 929.
FpFindOne(r, n) ==
  /\ r.pc = "fp_find"
  /\ LET user == users[r.email]
     IN IF NoAccount(user)
          THEN /\ Finish(r, Reply(r, 404, FALSE, Undefined, "No account found"))
               /\ UNCHANGED <<resetCodes, timers, hist>>
          ELSE LET code == NumberToString(n)
                   s == [r EXCEPT !.code = code]
               IN /\ resetCodes' = MapSet(resetCodes, r.email, code)
                  /\ hist' = [hist EXCEPT ![r.email] = Issued(@, code)]
                  /\ timers' = Append(timers, [email |-> r.email, code |-> code,
                                                owner |-> hist'[r.email].issuer])
                  /\ IF Configured(FirstProvider)
                       THEN Continue(r, [s EXCEPT !.pc = "fp_send1"])
                       ELSE IF FallbackDue(s.emailSent, SecondProvider)
                              THEN Continue(r, [s EXCEPT !.pc = "fp_send2"])
                              ELSE Finish(r, ForgotResponse(s))
  /\ UNCHANGED <<config, users, made>>

\* The first provider's call settled: lines 193-217 then 220, or 870-892
\* then 895.
FpSendFirst(r, outcome) ==
  /\ r.pc = "fp_send1"
  /\ LET p == FirstProvider
         s == [r EXCEPT !.emailSent = MarksSent(p, outcome),
                              !.attempts = Append(@, [provider |-> p, outcome |-> outcome])]
     IN IF FallbackDue(s.emailSent, SecondProvider)
          THEN Continue(r, [s EXCEPT !.pc = "fp_send2"])
          ELSE Finish(r, ForgotResponse(s))
  /\ UNCHANGED <<config, users, resetCodes, timers, made, hist>>

\* The second provider's call settled: lines 220-264, or 895-945.
FpSendSecond(r, outcome) ==
  /\ r.pc = "fp_send2"
  /\ LET p == SecondProvider
         s == [r EXCEPT !.emailSent = MarksSent(p, outcome),
                              !.attempts = Append(@, [provider |-> p, outcome |-> outcome])]
     IN Finish(r, ForgotResponse(s))
  /\ UNCHANGED <<config, users, resetCodes, timers, made, hist>>

\* A timer fires.  Every timer has the same delay (10 * 60 * 1000 ms), so
\* they fire in the order they were armed.
TimerFires ==
  /\ timers # <<>>
  /\ LET t == Head(timers) IN
       /\ resetCodes' = TimerCallback(resetCodes, t)
       /\ hist' = [hist EXCEPT ![t.email] =
                     IF @.issuer = t.owner THEN [@ EXCEPT !.expired = TRUE] ELSE @]
  /\ timers' = Tail(timers)
  /\ response' = NoResponse
  /\ UNCHANGED <<config, users, reqs, made>>

\* ------------------------------------------------------- reset-password

\* if (!email || !code || !newPassword), lines 271 and 958.
FieldsMissing(email, code, newPassword) ==
  email = NoEmail \/ Falsy(code) \/ newPassword = NoPassword

\* Mutant: a wrong code burns the entry of the email.
MutResetPasswordBurns(email, code, newPassword) ==
  /\ made < MaxReq
  /\ made' = made + 1
  /\ LET r == [Idle EXCEPT !.kind = "reset", !.email = email, !.code = code,
                           !.newPassword = newPassword]
     IN IF FieldsMissing(email, code, newPassword)
          THEN /\ response' = Reply(r, 400, FALSE, Undefined, "All fields are required")
               /\ reqs' = reqs
               /\ resetCodes' = resetCodes
          ELSE LET validCode == MapGet(resetCodes, email) IN
               IF CodeRejected(validCode, code)
                 THEN /\ response' = Reply(r, 400, FALSE, Undefined, "Invalid or expired code")
                      /\ reqs' = reqs
                      /\ resetCodes' = MapDelete(resetCodes, email)
                 ELSE /\ Begin([r EXCEPT !.pc = "rp_find"])
                      /\ resetCodes' = resetCodes
  /\ UNCHANGED <<config, users, timers, hist>>

\* POST /api/reset-password up to its first await: lines 269-276, 956-965.
ResetPassword(email, code, newPassword) ==
  /\ made < MaxReq
  /\ made' = made + 1
  /\ LET r == [Idle EXCEPT !.kind = "reset", !.email = email, !.code = code,
                           !.newPassword = newPassword]
     IN IF FieldsMissing(email, code, newPassword)
          THEN /\ response' = Reply(r, 400, FALSE, Undefined, "All fields are required")
               /\ reqs' = reqs
          ELSE LET validCode == MapGet(resetCodes, email) IN
               IF CodeRejected(validCode, code)
                 THEN /\ response' = Reply(r, 400, FALSE, Undefined, "Invalid or expired code")
                      /\ reqs' = reqs
                 ELSE Begin([r EXCEPT !.pc = "rp_find"])
  /\ UNCHANGED <<config, users, resetCodes, timers, hist>>

\* User.findOne resolved: lines 276-277, 965-966.  (The 404 needs an
\* account that disappeared after its code was stored.)
RpFindOne(r) ==
  /\ r.pc = "rp_find"
  /\ IF NoAccount(users[r.email])
       THEN Finish(r, Reply(r, 404, FALSE, Undefined, "User not found"))
       ELSE Continue(r, [r EXCEPT !.pc = "rp_hash"])
  /\ UNCHANGED <<config, users, resetCodes, timers, made, hist>>

\* Mutant: the entry deleted before the password is hashed and saved.
MutRpHashConsumesFirst(r, outcome) ==
  /\ r.pc = "rp_hash"
  /\ resetCodes' = MapDelete(resetCodes, r.email)
  /\ IF outcome = "ok"
       THEN Continue(r, [r EXCEPT !.pc = "rp_save"])
       ELSE Finish(r, Reply(r, 500, FALSE, Undefined, "Error resetting password"))
  /\ UNCHANGED <<config, users, timers, made, hist>>

\* bcrypt.hash settled: lines 280, 969 (a rejection lands in the catch,
\* lines 284-287, 973-976).
RpHash(r, outcome) ==
  /\ r.pc = "rp_hash"
  /\ IF outcome = "ok"
       THEN Continue(r, [r EXCEPT !.pc = "rp_save"])
       ELSE Finish(r, Reply(r, 500, FALSE, Undefined, "Error resetting password"))
  /\ UNCHANGED <<config, users, resetCodes, timers, made, hist>>

\* Mutant: the entry left in place.
MutConsumeNothing(codes, email) == codes

\* The entry of a successful reset is consumed: lines 282 and 971.
Consume(codes, email) == MapDelete(codes, email)

\* Mutant: the catch block deletes the entry too.
MutRpSaveCatchDeletes(r, outcome) ==
  /\ r.pc = "rp_save"
  /\ resetCodes' = MapDelete(resetCodes, r.email)
  /\ IF outcome = "ok"
       THEN /\ users' = [users EXCEPT ![r.email] = BcryptHash(r.newPassword)]
            /\ hist' = [hist EXCEPT ![r.email].consumed = r.code]
            /\ Finish(r, Reply(r, 200, TRUE, Undefined, ""))
       ELSE /\ Finish(r, Reply(r, 500, FALSE, Undefined, "Error resetting password"))
            /\ UNCHANGED <<users, hist>>
  /\ UNCHANGED <<config, timers, made>>

\* user.save() settled: lines 281-287, 970-976.
RpSave(r, outcome) ==
  /\ r.pc = "rp_save"
  /\ IF outcome = "ok"
       THEN /\ users' = [users EXCEPT ![r.email] = BcryptHash(r.newPassword)]
            /\ resetCodes' = Consume(resetCodes, r.email)
            /\ hist' = [hist EXCEPT ![r.email].consumed = r.code]
            /\ Finish(r, Reply(r, 200, TRUE, Undefined, ""))
       ELSE /\ Finish(r, Reply(r, 500, FALSE, Undefined, "Error resetting password"))
            /\ UNCHANGED <<users, resetCodes, hist>>
  /\ UNCHANGED <<config, timers, made>>

Next ==
  \/ \E email \in Emails \cup {NoEmail} : ForgotPassword(email)
  \/ \E r \in InFlight, n \in CodeNumbers : FpFindOne(r, n)
  \/ \E r \in InFlight, o \in Outcomes(FirstProvider) : FpSendFirst(r, o)
  \/ \E r \in InFlight, o \in Outcomes(SecondProvider) : FpSendSecond(r, o)
  \/ TimerFires
  \/ \E b \in ResetBodies : ResetPassword(b.email, b.code, b.newPassword)
  \/ \E r \in InFlight : RpFindOne(r)
  \/ \E r \in InFlight, o \in {"ok", "throw"} : RpHash(r, o)
  \/ \E r \in InFlight, o \in {"ok", "throw"} : RpSave(r, o)

Spec == Init /\ [][Next]_vars

\* The same server once both addresses have an account, each created by
\* POST /api/register (lines 109-134 and 707), with both providers
\* configured and NODE_ENV left unset.
InitPair ==
  /\ variant \in {1, 2}
  /\ production = FALSE
  /\ emailCreds = TRUE
  /\ resend = TRUE
  /\ users = [e \in Emails |-> InitialHash]
  /\ resetCodes = [e \in Emails |-> Undefined]
  /\ timers = <<>>
  /\ reqs = EmptyBag
  /\ made = 0
  /\ response = NoResponse
  /\ hist = [e \in Emails |-> NoHist]

SpecPair == InitPair /\ [][Next]_vars

\* The server while its process keeps running: Node's event loop calls the
\* callback of every timer armed by setTimeout (lines 175 and 852) once its
\* delay has passed, so an armed timer does not stay armed for ever.
\* Nothing obliges a client to send a request or a provider to answer.
SpecLive == Init /\ [][Next]_vars /\ WF_vars(TimerFires)
\* ------------------------------------------------- reading a step

\* This step is POST /api/reset-password for email e with code c and a
\* complete body: either its handler was rejected at once (the response),
\* or it passed the code check and now waits for User.findOne.
ResetAccepted(e, c) ==
  /\ made' = made + 1
  /\ \E r \in BagToSet(reqs') :
       /\ r.pc = "rp_find" /\ r.email = e /\ r.code = c
       /\ CopiesIn(r, reqs') = CopiesIn(r, reqs) + 1
ResetRejected(e, c) ==
  /\ made' = made + 1
  /\ response'.req.kind = "reset"
  /\ response'.req.email = e /\ response'.req.code = c
  /\ ~FieldsMissing(e, c, response'.req.newPassword)
ResetSubmitted(e, c) == ResetAccepted(e, c) \/ ResetRejected(e, c)
Rejected400(e, c) ==
  /\ ResetRejected(e, c)
  /\ response'.status = 400 /\ response'.error = "Invalid or expired code"

\* This step is a reset-password that succeeded for email e.
ResetSucceeded(e) ==
  /\ response'.req.kind = "reset" /\ response'.req.email = e
  /\ response'.status = 200 /\ response'.success

\* This step is the oldest timer firing.
TimerFired == timers # <<>> /\ made' = made /\ timers' = Tail(timers)

\* --------------------------------------------------------------- claims

\* C1: a reset-password that succeeds for email e removes e's entry, and
\* while no forgot-password has stored a new code for e since, every later
\* reset-password for e with the code that was consumed is answered 400.
C1_ConsumedCodeRejected ==
  [][\A e \in Emails :
       /\ ResetSucceeded(e) => MapGet(resetCodes', e) = Undefined
       /\ \A c \in SubmittedCodes :
            ResetSubmitted(e, c) /\ hist[e].consumed = c => Rejected400(e, c)]_vars

\* A reset-password with the consumed code has just been answered 400.
C1_Witness ==
  /\ response.req.kind = "reset" /\ response.status = 400
  /\ response.error = "Invalid or expired code"
  /\ response.req.email \in Emails
  /\ hist[response.req.email].consumed = response.req.code

\* C2 as stated: once a second code has been stored for e, every
\* reset-password for e with an earlier code is answered 400 and changes no
\* password.
C2_Original ==
  [][\A e \in Emails, c \in SubmittedCodes :
       ResetSubmitted(e, c) /\ c \in hist[e].superseded
         => Rejected400(e, c) /\ users' = users]_vars

\* C2 amended: the same, for an earlier code that differs from the code
\* stored last (the generator may draw the same six digits again, and then
\* the earlier code is the live one).
C2_SupersededCodeRejected ==
  [][\A e \in Emails, c \in SubmittedCodes :
       ResetSubmitted(e, c) /\ c \in hist[e].superseded /\ c # hist[e].code
         => Rejected400(e, c) /\ users' = users]_vars

\* A reset-password with the first of two different codes has just been
\* answered 400 while the second code is in the registry.
C2_Witness ==
  /\ response.req.kind = "reset" /\ response.status = 400
  /\ response.error = "Invalid or expired code"
  /\ response.req.email \in Emails
  /\ LET e == response.req.email IN
       /\ response.req.code \in hist[e].superseded
       /\ response.req.code # hist[e].code
       /\ MapGet(resetCodes, e) = hist[e].code

\* C3: an entry leaves the registry only when a reset-password consumes it
\* or when the timer armed by the request that stored it fires; a timer
\* armed by an earlier request never deletes it.
C3_TimerDeletesOnlyOwnEntry ==
  [][\A e \in Emails :
       MapGet(resetCodes, e) # Undefined /\ MapGet(resetCodes', e) = Undefined
         => \/ ResetSucceeded(e)
            \/ /\ TimerFired
               /\ Head(timers).email = e
               /\ Head(timers).owner = hist[e].issuer]_vars

\* C4: once the timer armed by the request that stored code c for e has
\* fired, and no forgot-password has stored a code for e since, a
\* reset-password for e with c is answered 400.
C4_ExpiredCodeRejected ==
  [][\A e \in Emails, c \in SubmittedCodes :
       ResetSubmitted(e, c) /\ hist[e].expired /\ hist[e].code = c
         => Rejected400(e, c)]_vars

\* A reset-password with a code whose own timer has fired has just been
\* answered 400.
C4_Witness ==
  /\ response.req.kind = "reset" /\ response.status = 400
  /\ response.error = "Invalid or expired code"
  /\ response.req.email \in Emails
  /\ hist[response.req.email].expired
  /\ hist[response.req.email].code = response.req.code
  /\ hist[response.req.email].consumed = Undefined

C6_CodeCheckExact ==
  [][\A e \in Emails, c \in SubmittedCodes :
       ResetSubmitted(e, c) =>
         LET match == resetCodes[e] # Undefined /\ resetCodes[e] = c IN
           /\ ResetAccepted(e, c) <=> match
           /\ ~match => Rejected400(e, c)]_vars

\* A reset-password whose code is the stored one has passed the code check and
\* waits for User.findOne.
C6_Witness ==
  \E r \in InFlight :
    /\ r.kind = "reset" /\ r.pc = "rp_find"
    /\ resetCodes[r.email] = r.code
    /\ response = NoResponse

\* C7: forgot-password for an email that has an account always answers 200
\* with success true, whatever the providers did.
C7_AlwaysAccepted ==
  response.req.kind = "forgot" /\ response.req.email \in Emails
    /\ users[response.req.email] # NoUser
    => response.status = 200 /\ response.success

\* C8: with both providers configured, a forgot-password whose first
\* attempt failed made exactly one more attempt, on the other provider; and
\* no forgot-password attempted a provider twice.
C8_OneFallbackHop ==
  response.req.kind = "forgot" =>
    LET a == response.req.attempts IN
      /\ Len(a) <= 2
      /\ Len(a) = 2 => a[1].provider # a[2].provider
      /\ emailCreds /\ resend /\ Len(a) >= 1 /\ a[1].outcome # "ok"
           => Len(a) = 2

\* C9: a forgot-password response carries the reset code only outside
\* production, and never after a provider delivered the email.
C9_CodeOnlyInDevelopment ==
  response.req.kind = "forgot" =>
    /\ production => response.resetCode = Undefined
    /\ (\E k \in DOMAIN response.req.attempts :
          response.req.attempts[k].outcome = "ok")
         => response.resetCode = Undefined

\* The values reset-password accepts as the code for email e right now.
Accepted(e) ==
  {c \in SubmittedCodes \cup {Undefined} :
     ~FieldsMissing(e, c, "newpass") /\ ~CodeRejected(MapGet(resetCodes, e), c)}

\* C10: at every instant reset-password accepts at most one code value for
\* an email.
C10_OneLiveCode == \A e \in Emails : Cardinality(Accepted(e)) <= 1

\* The registry holds a code for an email and that string alone is
\* accepted, not the number with the same digits.
C10_Witness ==
  /\ resetCodes["a@b.com"] = Str(482913)
  /\ Accepted("a@b.com") = {Str(482913)}
\* The attempts made so far by every forgot-password handler in flight and
\* by the one that has just answered, each in the order they settled.
AttemptLogs == {r.attempts : r \in InFlight} \cup {response.req.attempts}

\* C11 as stated: Gmail (SMTP) is attempted only right after an attempt on
\* Resend failed in the same request.
C11_Original ==
  \A a \in AttemptLogs : \A k \in DOMAIN a :
    a[k].provider = "gmail"
      => k > 1 /\ a[k-1].provider = "resend" /\ a[k-1].outcome # "ok"

\* C11 amended: the order is that of the build (variant 2: Resend, then
\* Gmail; variant 1: Gmail, then Resend).  The second provider is attempted
\* only when the first is not configured or right after the first's attempt
\* failed, never after the first's attempt succeeded.
C11_SecondOnlyAfterFirstFailed ==
  /\ variant = 2 => FirstProvider = "resend" /\ SecondProvider = "gmail"
  /\ variant = 1 => FirstProvider = "gmail" /\ SecondProvider = "resend"
  /\ \A a \in AttemptLogs : \A k \in DOMAIN a :
       /\ a[k].provider = FirstProvider => k = 1
       /\ a[k].provider = SecondProvider
            => \/ k = 1 /\ ~Configured(FirstProvider)
               \/ k = 2 /\ a[1].provider = FirstProvider /\ a[1].outcome # "ok"

\* In variant 2 a forgot-password has answered after Resend failed and
\* Gmail was attempted.
C11_Witness ==
  /\ variant = 2 /\ response.req.kind = "forgot"
  /\ Len(response.req.attempts) = 2
  /\ response.req.attempts[1].provider = "resend"
  /\ response.req.attempts[1].outcome = "throw"
  /\ response.req.attempts[2].provider = "gmail"
\* The handler r, in flight, takes this step.
Steps(r) == CopiesIn(r, reqs') < CopiesIn(r, reqs)

\* C12: a reset-password that passed the code check and ends in 404 or 500
\* leaves the registry and the stored password hashes as they were; its
\* handler changes the registry only in the step that saved the new hash
\* and answers 200.
C12_ConsumeOnlyAfterSave ==
  [][\A r \in InFlight :
       r.kind = "reset" /\ Steps(r) =>
         /\ response'.status \in {404, 500}
              => resetCodes' = resetCodes /\ users' = users
         /\ resetCodes' # resetCodes
              => /\ response'.status = 200
                 /\ users'[r.email] = BcryptHash(r.newPassword)]_vars

\* A reset-password whose save (or hash) failed has just answered 500; its
\* code is still in the registry and the password hash is the old one.
C12_Witness ==
  /\ response.req.kind = "reset" /\ response.status = 500
  /\ resetCodes[response.req.email] = response.req.code
  /\ users[response.req.email] = InitialHash
\* The values reset-password would accept as the code for email e if the
\* registry were `codes`.
AcceptedIn(codes, e) ==
  {c \in SubmittedCodes \cup {Undefined} :
     ~FieldsMissing(e, c, "newpass") /\ ~CodeRejected(MapGet(codes, e), c)}

\* C13 as stated: after a reset-password whose save failed, the code it
\* submitted is no longer accepted.
C13_Original ==
  [][\A r \in InFlight :
       r.pc = "rp_save" /\ Steps(r) /\ ~response'.success
         => /\ response'.status = 500
            /\ r.code \notin AcceptedIn(resetCodes', r.email)]_vars

\* C13 amended: a reset-password whose save failed answers 500 and leaves
\* the registry as it was, so the code it submitted, if it was still the
\* stored one, is accepted again without a new forgot-password.
C13_FailedSaveKeepsCode ==
  [][\A r \in InFlight :
       r.pc = "rp_save" /\ Steps(r) /\ ~response'.success
         => /\ response'.status = 500
            /\ AcceptedIn(resetCodes', r.email) = AcceptedIn(resetCodes, r.email)
            /\ MapGet(resetCodes, r.email) = r.code
                 => r.code \in AcceptedIn(resetCodes', r.email)]_vars

\* A save has just failed and the submitted code is still accepted.
C13_Witness ==
  /\ response.req.kind = "reset" /\ response.req.pc = "rp_save"
  /\ response.status = 500
  /\ response.req.code \in AcceptedIn(resetCodes, response.req.email)
\* C14: a reset-password answered 400 leaves the registry, the timers and
\* the password hashes as they were, so whatever code was accepted before
\* the attempt is accepted after it.
C14_RejectionConsumesNothing ==
  [][made' = made + 1 /\ response'.req.kind = "reset" /\ response'.status = 400
       => /\ resetCodes' = resetCodes /\ users' = users /\ timers' = timers
          /\ \A e \in Emails :
               AcceptedIn(resetCodes', e) = AcceptedIn(resetCodes, e)]_vars

\* A reset-password with a wrong code has just been answered 400 and the
\* stored code of the email is still accepted.
C14_Witness ==
  /\ response.req.kind = "reset" /\ response.status = 400
  /\ response.error = "Invalid or expired code"
  /\ response.req.email \in Emails
  /\ resetCodes[response.req.email] # Undefined
  /\ resetCodes[response.req.email] # response.req.code
  /\ AcceptedIn(resetCodes, response.req.email) = {resetCodes[response.req.email]}
\* C15: a code authorizes one password change: no reset-password succeeds
\* for an email with a code that another reset-password has already
\* consumed since the last code was stored for that email.
C15_OneChangePerCode ==
  [][\A e \in Emails :
       ResetSucceeded(e) => hist[e].consumed # response'.req.code]_vars

\* C18: a reset-password replaces the password only while the code it
\* submitted is still the stored one: when its save completes, the entry of
\* its email is its code.
C18_SaveOnlyUnderLiveCode ==
  [][\A r \in InFlight :
       r.pc = "rp_save" /\ Steps(r) /\ response'.status = 200
         => MapGet(resetCodes, r.email) = r.code]_vars

\* C19: a reset-password that succeeds removes only the code it validated:
\* when the entry of its email holds another code by then, that entry stays.
C19_RemovesOnlyValidatedCode ==
  [][\A r \in InFlight :
       /\ r.pc = "rp_save" /\ Steps(r) /\ response'.status = 200
       /\ MapGet(resetCodes, r.email) # Undefined
       /\ MapGet(resetCodes, r.email) # r.code
       => MapGet(resetCodes', r.email) = MapGet(resetCodes, r.email)]_vars

\* C20: when a forgot-password answers 400, 404 or 500, the registry holds
\* no code that this request stored.
C20_FailureStoresNothing ==
  response.req.kind = "forgot" /\ response.status \in {400, 404, 500}
    => \/ response.req.code = Undefined
       \/ MapGet(resetCodes, response.req.email) # response.req.code
\* C16: requests for different emails are independent: a step changes the
\* registry entry of an email only when it is a step of a handler working
\* for that email or the callback of a timer armed for that email.
C16_EmailsIndependent ==
  [][\A e \in Emails :
       MapGet(resetCodes', e) # MapGet(resetCodes, e)
         => \/ \E r \in InFlight : r.email = e /\ Steps(r)
            \/ TimerFired /\ Head(timers).email = e]_vars

\* Two accounts hold a code each, and a reset-password for one of them has
\* consumed its code while the other's is still stored.
C16_Witness ==
  /\ response.req.kind = "reset" /\ response.status = 200
  /\ \E e \in Emails \ {response.req.email} :
       /\ hist[e].issuer > 0
       /\ MapGet(resetCodes, e) # Undefined
  /\ MapGet(resetCodes, response.req.email) = Undefined
  /\ hist[response.req.email].consumed # Undefined
\* C17: every stored code goes away: from a state where an email holds the
\* code of its k-th store, a state follows where the email holds nothing,
\* unless a further forgot-password stores a code for it. Timers fire; no
\* reset-password need arrive.
C17_EveryEntryExpires ==
  \A e \in Emails : \A k \in 1..MaxReq :
    (MapGet(resetCodes, e) # Undefined /\ hist[e].issuer = k)
      ~> (MapGet(resetCodes, e) = Undefined \/ hist[e].issuer # k)

\* Several forgot-password requests for one email have overlapped, the code
\* of the last one was removed by its own timer, and no timer is left.
C17_Witness ==
  \E e \in Emails :
    /\ hist[e].issuer >= 2
    /\ hist[e].expired
    /\ hist[e].consumed = Undefined
    /\ MapGet(resetCodes, e) = Undefined
    /\ timers = <<>>
    /\ \E r \in InFlight : r.kind = "forgot" /\ r.email = e
====
